---- MODULE Spec2Model ----
(***************************************************************************)
(* Model of deepseek_python_20250924_1cefd3.py: the section segmenter      *)
(* parse_wcart_manual_to_json, the renderer convert_to_html and the inline *)
(* formatter convert_formatting.                                          *)
(*                                                                         *)
(* A Python str is a sequence of one-character strings.  Characters that   *)
(* are not ASCII are written by their code point: "U+2022" is the bullet,  *)
(* "U+2192", "U+2190", "U+2191", "U+2193" are the four arrows,             *)
(* "U+0060" is the backtick.                                              *)
(***************************************************************************)
EXTENDS Integers, Sequences, FiniteSets, TLC

VARIABLES
    \* parse_wcart_manual_to_json
    doc,              \* doc.paragraphs: sequence of [text, style]
    seg_i,            \* position of the for loop over doc.paragraphs
    data,             \* the dict, in insertion order: sequence of [key, value]
    current_section,  \* None is modelled by the empty str (both are falsy)
    seg_pc,           \* "idle", "loop", "done"
    \* convert_to_html
    text,             \* the argument
    paragraphs,       \* text.split('\n\n')
    pidx,             \* position of the loop over paragraphs
    lines,            \* paragraph.split('\n') of the current paragraph
    lidx,             \* position of the loop over lines
    html_lines,
    current_list,
    in_list,
    html_paragraphs,
    result,           \* the returned str
    pc,               \* "idle", "start", "para", "line", "done"
    pass,             \* 1: first application, 2: applied to its own output
    first,            \* the result of the first application
    orig,             \* the argument of the first application
    \* convert_formatting
    fmt_segs,         \* how the argument was put together
    fmt_text,         \* the argument
    fmt_result,       \* the returned str
    fmt_pc            \* "idle", "call", "done"

seg_vars == <<doc, seg_i, data, current_section, seg_pc>>
html_vars == <<text, paragraphs, pidx, lines, lidx, html_lines, current_list,
               in_list, html_paragraphs, result, pc, pass, first, orig>>
fmt_vars == <<fmt_segs, fmt_text, fmt_result, fmt_pc>>
vars == <<seg_vars, html_vars, fmt_vars>>

(***************************************************************************)
(* Bounds of the model.                                                    *)
(***************************************************************************)
MaxParas == 3   \* paragraphs of a document handed to the segmenter
MaxLines == 3   \* physical lines of a text handed to the renderer
MaxSegs == 3    \* pieces of a line handed to the formatter

(***************************************************************************)
(* str primitives.                                                         *)
(***************************************************************************)
NL == <<"\n">>
NLNL == <<"\n", "\n">>
BULLET == "U+2022"
BACKTICK == "U+0060"

Min(S) == CHOOSE m \in S : \A n \in S : m <= n
Max(S) == CHOOSE m \in S : \A n \in S : n <= m

IsSpace(c) == c \in {" ", "\t", "\n", "\r"}
IsDigit(c) == c \in {"0", "1", "2", "3", "4", "5", "6", "7", "8", "9"}

\* str.strip()
Strip(s) ==
    LET keep == {k \in 1..Len(s) : ~IsSpace(s[k])}
    IN  IF keep = {} THEN <<>> ELSE SubSeq(s, Min(keep), Max(keep))

\* str.startswith(p)
StartsWith(s, p) == Len(s) >= Len(p) /\ SubSeq(s, 1, Len(p)) = p

\* str.split(sep) with an explicit separator
RECURSIVE Split(_, _)
Split(s, sep) ==
    LET n == Len(sep)
        hits == {k \in 1..(Len(s) - n + 1) : SubSeq(s, k, k + n - 1) = sep}
    IN  IF hits = {} THEN <<s>>
        ELSE <<SubSeq(s, 1, Min(hits) - 1)>>
             \o Split(SubSeq(s, Min(hits) + n, Len(s)), sep)

\* sep.join(ss)
RECURSIVE Join(_, _)
Join(ss, sep) ==
    IF ss = <<>> THEN <<>>
    ELSE IF Len(ss) = 1 THEN ss[1]
    ELSE ss[1] \o sep \o Join(Tail(ss), sep)

\* Length of the longest prefix of s made of digits: \d+ at the start.
LeadDigits(s) ==
    LET bad == {k \in 1..Len(s) : ~IsDigit(s[k])}
    IN  IF bad = {} THEN Len(s) ELSE Min(bad) - 1

\* Length of the longest prefix of s made of whitespace: \s+ at the start.
LeadSpaces(s) ==
    LET bad == {k \in 1..Len(s) : ~IsSpace(s[k])}
    IN  IF bad = {} THEN Len(s) ELSE Min(bad) - 1

\* re.match(r'^\d+\.', s)
MatchNumDot(s) ==
    LET d == LeadDigits(s)
    IN  d >= 1 /\ Len(s) >= d + 1 /\ s[d + 1] = "."

\* re.match(r'^\d+\.\s+', s)
MatchNumItem(s) ==
    LET d == LeadDigits(s)
    IN  MatchNumDot(s) /\ Len(s) >= d + 2 /\ IsSpace(s[d + 2])

\* re.sub(r'^\d+\.\s+', '', s)
SubNumItem(s) ==
    IF MatchNumItem(s)
    THEN LET d == LeadDigits(s)
             rest == SubSeq(s, d + 2, Len(s))
         IN  SubSeq(rest, LeadSpaces(rest) + 1, Len(rest))
    ELSE s

(***************************************************************************)
(* HTML fragments.                                                         *)
(***************************************************************************)
Open(name) == <<"<">> \o name \o <<">">>
Close(name) == <<"<", "/">> \o name \o <<">">>
OL == <<"o", "l">>
UL == <<"u", "l">>
LI == <<"l", "i">>
BR == <<"<", "b", "r", ">">>
BRBR == BR \o BR
STRONG == <<"s", "t", "r", "o", "n", "g">>
EM == <<"e", "m">>
UNDERLINE == <<"u">>
CODE == <<"c", "o", "d", "e">>

(***************************************************************************)
(* convert_formatting                                                      *)
(***************************************************************************)
\* re.sub(d (.*?) d, <name>\1</name>, s) for a literal delimiter d: the
\* leftmost match first, the shortest inner text, '.' matching no line feed,
\* and the scan going on after the closing delimiter.
RECURSIVE SubPair(_, _, _)
SubPair(s, d, name) ==
    IF s = <<>> THEN <<>>
    ELSE
        LET n == Len(d)
            closes == {j \in (n + 1)..(Len(s) - n + 1) :
                          /\ SubSeq(s, j, j + n - 1) = d
                          /\ \A k \in (n + 1)..(j - 1) : s[k] # "\n"}
        IN  IF StartsWith(s, d) /\ closes # {}
            THEN Open(name) \o SubSeq(s, n + 1, Min(closes) - 1) \o Close(name)
                 \o SubPair(SubSeq(s, Min(closes) + n, Len(s)), d, name)
            ELSE <<s[1]>> \o SubPair(Tail(s), d, name)

\* One character under the four str.replace calls.
Entity(c) ==
    CASE c = "U+2192" -> <<"&", "r", "a", "r", "r", ";">>
      [] c = "U+2190" -> <<"&", "l", "a", "r", "r", ";">>
      [] c = "U+2191" -> <<"&", "u", "a", "r", "r", ";">>
      [] c = "U+2193" -> <<"&", "d", "a", "r", "r", ";">>
      [] OTHER -> <<c>>

RECURSIVE ReplaceArrows(_)
ReplaceArrows(s) ==
    IF s = <<>> THEN <<>> ELSE Entity(s[1]) \o ReplaceArrows(Tail(s))

Bold(s) == SubPair(s, <<"*", "*">>, STRONG)
Italic(s) == SubPair(s, <<"*">>, EM)
Underlined(s) == SubPair(s, <<"_">>, UNDERLINE)
Monospace(s) == SubPair(s, <<BACKTICK>>, CODE)

convert_formatting(s) == ReplaceArrows(Monospace(Underlined(Italic(Bold(s)))))

(***************************************************************************)
(* convert_to_html                                                         *)
(***************************************************************************)
\* Line 84: the test on a stripped line.
IsListLine(line) ==
    \/ StartsWith(line, <<"-", " ">>)
    \/ StartsWith(line, <<BULLET, " ">>)
    \/ MatchNumItem(line)

\* The mutant of CleanItem: the numeric marker is left on the item.
CleanItemKeepsNumber(line) ==
    IF StartsWith(line, <<"-", " ">>) THEN Strip(SubSeq(line, 3, Len(line)))
    ELSE IF StartsWith(line, <<BULLET, " ">>)
    THEN Strip(SubSeq(line, 3, Len(line)))
    ELSE Strip(line)

\* Lines 90-95: the item of a list line.
CleanItem(line) ==
    IF StartsWith(line, <<"-", " ">>) THEN Strip(SubSeq(line, 3, Len(line)))
    ELSE IF StartsWith(line, <<BULLET, " ">>)
    THEN Strip(SubSeq(line, 3, Len(line)))
    ELSE Strip(SubNumItem(line))

\* The mutant of ListTag: the tag is read off the last line of the paragraph.
ListTagLastLine(ls) == IF MatchNumDot(ls[Len(ls)]) THEN OL ELSE UL

\* Lines 104 and 114: the tag, from the first element of paragraph.split.
ListTag(ls) == IF MatchNumDot(ls[1]) THEN OL ELSE UL

\* Lines 105 and 115: the list block that is appended to html_lines.
ListBlock(ls, items) ==
    Open(ListTag(ls)) \o Join(items, <<>>) \o Close(ListTag(ls))

\* The loop's state: st = [html_lines, current_list, in_list].
\* The mutant of EndList: the flag in_list is left set.
EndListKeepsFlag(st, ls) ==
    IF st.in_list /\ st.current_list # <<>>
    THEN [html_lines |-> Append(st.html_lines, ListBlock(ls, st.current_list)),
          current_list |-> <<>>,
          in_list |-> TRUE]
    ELSE st

\* Lines 103-107: a line that is no list line ends the current list.
EndList(st, ls) ==
    IF st.in_list /\ st.current_list # <<>>
    THEN [html_lines |-> Append(st.html_lines, ListBlock(ls, st.current_list)),
          current_list |-> <<>>,
          in_list |-> FALSE]
    ELSE st

\* Lines 85-99: a list line.
AddItem(st, line) ==
    LET cur == IF ~st.in_list THEN <<>> ELSE st.current_list
        item_html == convert_formatting(CleanItem(line))
    IN  [html_lines |-> st.html_lines,
         current_list |-> Append(cur, Open(LI) \o item_html \o Close(LI)),
         in_list |-> TRUE]

\* Lines 79-110: the body of the loop over lines, for one raw line.
LineStep(st, raw, ls) ==
    LET line == Strip(raw)
    IN  IF line = <<>> THEN st
        ELSE IF IsListLine(line) THEN AddItem(st, line)
        ELSE LET e == EndList(st, ls)
             IN  [e EXCEPT !.html_lines = Append(@, convert_formatting(line))]

\* Lines 113-115: the list that is open when the lines are used up.
RemainingList(st, ls) ==
    IF st.in_list /\ st.current_list # <<>>
    THEN Append(st.html_lines, ListBlock(ls, st.current_list))
    ELSE st.html_lines

\* The mutant of JoinLines: the lines are put together with a line feed.
JoinLinesNewline(hl) == Join(hl, NL)

\* Line 119: '<br>'.join(html_lines)
JoinLines(hl) == Join(hl, BR)

LoopState == [html_lines |-> html_lines, current_list |-> current_list,
              in_list |-> in_list]

\* Lines 62-67.
Start ==
    /\ pc = "start"
    /\ IF text = <<>>
       THEN /\ result' = <<>>
            /\ pc' = "done"
            /\ UNCHANGED <<paragraphs, pidx, html_paragraphs>>
       ELSE /\ paragraphs' = Split(text, NLNL)
            /\ html_paragraphs' = <<>>
            /\ pidx' = 1
            /\ pc' = "para"
            /\ UNCHANGED result
    /\ UNCHANGED <<text, lines, lidx, html_lines, current_list, in_list, pass,
                   first, orig>>
    /\ UNCHANGED <<seg_vars, fmt_vars>>

\* Lines 69-76: the next paragraph; one that is blank is passed over.
NextParagraph ==
    /\ pc = "para"
    /\ pidx <= Len(paragraphs)
    /\ IF Strip(paragraphs[pidx]) = <<>>
       THEN /\ pidx' = pidx + 1
            /\ UNCHANGED <<lines, lidx, html_lines, current_list, in_list, pc>>
       ELSE /\ lines' = Split(paragraphs[pidx], NL)
            /\ html_lines' = <<>>
            /\ current_list' = <<>>
            /\ in_list' = FALSE
            /\ lidx' = 1
            /\ pc' = "line"
            /\ UNCHANGED pidx
    /\ UNCHANGED <<text, paragraphs, html_paragraphs, result, pass, first,
                   orig>>
    /\ UNCHANGED <<seg_vars, fmt_vars>>

\* Lines 78-110: one turn of the loop over the lines of the paragraph.
ProcessLine ==
    /\ pc = "line"
    /\ lidx <= Len(lines)
    /\ LET st == LineStep(LoopState, lines[lidx], lines)
       IN  /\ html_lines' = st.html_lines
           /\ current_list' = st.current_list
           /\ in_list' = st.in_list
    /\ lidx' = lidx + 1
    /\ UNCHANGED <<text, paragraphs, pidx, lines, html_paragraphs, result, pc,
                   pass, first, orig>>
    /\ UNCHANGED <<seg_vars, fmt_vars>>

\* Lines 112-119: the end of the paragraph.
EndParagraph ==
    /\ pc = "line"
    /\ lidx > Len(lines)
    /\ html_lines' = RemainingList(LoopState, lines)
    /\ html_paragraphs' =
          IF html_lines' # <<>>
          THEN Append(html_paragraphs, JoinLines(html_lines'))
          ELSE html_paragraphs
    /\ pidx' = pidx + 1
    /\ pc' = "para"
    /\ UNCHANGED <<text, paragraphs, lines, lidx, current_list, in_list,
                   result, pass, first, orig>>
    /\ UNCHANGED <<seg_vars, fmt_vars>>

\* Line 121.
Return ==
    /\ pc = "para"
    /\ pidx > Len(paragraphs)
    /\ result' = Join(html_paragraphs, BRBR)
    /\ pc' = "done"
    /\ UNCHANGED <<text, paragraphs, pidx, lines, lidx, html_lines,
                   current_list, in_list, html_paragraphs, pass, first, orig>>
    /\ UNCHANGED <<seg_vars, fmt_vars>>

\* convert_to_html(convert_to_html(t)): the returned str is the next argument.
Reapply ==
    /\ pc = "done"
    /\ pass = 1
    /\ first' = result
    /\ orig' = text
    /\ text' = result
    /\ pass' = 2
    /\ pc' = "start"
    /\ UNCHANGED <<paragraphs, pidx, lines, lidx, html_lines, current_list,
                   in_list, html_paragraphs, result>>
    /\ UNCHANGED <<seg_vars, fmt_vars>>

(***************************************************************************)
(* convert_formatting, called on its own                                   *)
(***************************************************************************)
Format ==
    /\ fmt_pc = "call"
    /\ fmt_result' = convert_formatting(fmt_text)
    /\ fmt_pc' = "done"
    /\ UNCHANGED <<fmt_segs, fmt_text>>
    /\ UNCHANGED <<seg_vars, html_vars>>

(***************************************************************************)
(* parse_wcart_manual_to_json                                              *)
(***************************************************************************)
\* Line 48: paragraph.style.name.startswith("Heading")
HeadingPrefix == <<"H", "e", "a", "d", "i", "n", "g">>
IsHeadingStyle(style) == StartsWith(style, HeadingPrefix)

\* A dict keeps its keys in the order of their insertion.
DictKeys(d) == [k \in 1..Len(d) |-> d[k].key]
DictHas(d, key) == \E k \in 1..Len(d) : d[k].key = key
DictGet(d, key) == d[CHOOSE k \in 1..Len(d) : d[k].key = key].value

\* The mutant of DictSet: a key that is set again moves to the end.
DictSetMovesKey(d, key, value) ==
    Append(SelectSeq(d, LAMBDA e : e.key # key), [key |-> key, value |-> value])

\* d[key] = value: a key that is present keeps its place.
DictSet(d, key, value) ==
    IF DictHas(d, key)
    THEN [k \in 1..Len(d) |->
             IF d[k].key = key THEN [key |-> key, value |-> value] ELSE d[k]]
    ELSE Append(d, [key |-> key, value |-> value])

\* Line 50: {"content": "", "subsections": {}}
EmptyRecord == [content |-> <<>>, subsections |-> <<>>]

\* Lines 43-53: the body of the loop, for one paragraph.
SegStep ==
    /\ seg_pc = "loop"
    /\ seg_i <= Len(doc)
    /\ LET t == Strip(doc[seg_i].text)
       IN  IF t = <<>>
           THEN UNCHANGED <<data, current_section>>
           ELSE IF IsHeadingStyle(doc[seg_i].style)
           THEN /\ current_section' = t
                /\ data' = DictSet(data, t, EmptyRecord)
           ELSE IF current_section # <<>>
           THEN /\ data' = DictSet(data, current_section,
                               [DictGet(data, current_section) EXCEPT
                                   !.content = @ \o t \o NL])
                /\ UNCHANGED current_section
           ELSE UNCHANGED <<data, current_section>>
    /\ seg_i' = seg_i + 1
    /\ UNCHANGED <<doc, seg_pc>>
    /\ UNCHANGED <<html_vars, fmt_vars>>

\* Line 55.
SegReturn ==
    /\ seg_pc = "loop"
    /\ seg_i > Len(doc)
    /\ seg_pc' = "done"
    /\ UNCHANGED <<doc, seg_i, data, current_section>>
    /\ UNCHANGED <<html_vars, fmt_vars>>

(***************************************************************************)
(* The arguments the functions are called with.                            *)
(***************************************************************************)
SeqsUpTo(S, n) == UNION {[1..m -> S] : m \in 0..n}

\* The lines of a text: list lines of the three kinds, a plain line, a numeric
\* line that is indented, a line that starts like a number and is no list
\* line, a line with a "<li>" of its own, underline, monospace and an arrow,
\* a blank line.
HtmlLines ==
    { <<"1", ".", " ", "a">>,
      <<"-", " ", "*", "b", "*">>,
      <<BULLET, " ", "e">>,
      <<"c">>,
      <<" ", "2", ".", " ", "d">>,
      <<"1", ".", "x">>,
      <<"<", "l", "i", ">", "_", "u", "_", BACKTICK, "m", BACKTICK, "U+2192">>,
      <<" ">> }

\* The lines of a text whose markers are split over its lines.
TwiceLines == { <<"*", "a">>, <<"b", "*">>, <<"-", " ", "c">>, <<"d">> }

\* The texts of at most n lines of L, put together with '\n' and '\n\n'.
RECURSIVE TextsOf(_, _)
TextsOf(L, n) ==
    IF n <= 1 THEN L
    ELSE LET prev == TextsOf(L, n - 1)
         IN  prev \cup {t \o sep \o l : t \in prev, sep \in {NL, NLNL}, l \in L}

\* The paragraphs of a document.
SegTexts == { <<"A">>, <<" ", "A", " ">>, <<"B", "-", "1">>, <<"x", "y">>,
              <<" ">> }
Styles == { <<"H", "e", "a", "d", "i", "n", "g", " ", "1">>,
            <<"N", "o", "r", "m", "a", "l">> }

\* The pieces of a line: plain text, **X** and *X*.
Pieces == { <<"a">>, <<"b", " ", "c">> }
Kinds == {"text", "bold", "italic"}
Marked(seg) ==
    CASE seg.kind = "bold" -> <<"*", "*">> \o seg.s \o <<"*", "*">>
      [] seg.kind = "italic" -> <<"*">> \o seg.s \o <<"*">>
      [] OTHER -> seg.s
LineOf(segs) == Join([k \in 1..Len(segs) |-> Marked(segs[k])], <<>>)

SegIdle ==
    /\ doc = <<>>
    /\ seg_i = 1
    /\ data = <<>>
    /\ current_section = <<>>
    /\ seg_pc = "idle"

HtmlIdle ==
    /\ text = <<>>
    /\ paragraphs = <<>>
    /\ pidx = 1
    /\ lines = <<>>
    /\ lidx = 1
    /\ html_lines = <<>>
    /\ current_list = <<>>
    /\ in_list = FALSE
    /\ html_paragraphs = <<>>
    /\ result = <<>>
    /\ pc = "idle"
    /\ pass = 1
    /\ first = <<>>
    /\ orig = <<>>

FmtIdle ==
    /\ fmt_segs = <<>>
    /\ fmt_text = <<>>
    /\ fmt_result = <<>>
    /\ fmt_pc = "idle"

HtmlCalled(T) ==
    /\ text \in T
    /\ paragraphs = <<>>
    /\ pidx = 1
    /\ lines = <<>>
    /\ lidx = 1
    /\ html_lines = <<>>
    /\ current_list = <<>>
    /\ in_list = FALSE
    /\ html_paragraphs = <<>>
    /\ result = <<>>
    /\ pc = "start"
    /\ pass = 1
    /\ first = <<>>
    /\ orig = <<>>

(***************************************************************************)
(* Specifications.                                                         *)
(***************************************************************************)
\* parse_wcart_manual_to_json on a document of at most MaxParas paragraphs.
InitSeg ==
    /\ doc \in SeqsUpTo([text : SegTexts, style : Styles], MaxParas)
    /\ seg_i = 1
    /\ data = <<>>
    /\ current_section = <<>>
    /\ seg_pc = "loop"
    /\ HtmlIdle
    /\ FmtIdle
NextSeg == SegStep \/ SegReturn
SpecSeg == InitSeg /\ [][NextSeg]_vars

\* convert_to_html on a text of at most MaxLines lines, or on the empty str.
InitHtml == HtmlCalled(TextsOf(HtmlLines, MaxLines) \cup {<<>>}) /\ SegIdle /\ FmtIdle
NextHtml == Start \/ NextParagraph \/ ProcessLine \/ EndParagraph \/ Return
SpecHtml == InitHtml /\ [][NextHtml]_vars

\* convert_to_html applied to a text and then to what it returned.
InitTwice == HtmlCalled(TextsOf(TwiceLines, MaxLines)) /\ SegIdle /\ FmtIdle
NextTwice == Start \/ NextParagraph \/ ProcessLine \/ EndParagraph \/ Return \/ Reapply
SpecTwice == InitTwice /\ [][NextTwice]_vars

\* convert_formatting on a line of at most MaxSegs pieces.
InitFmt ==
    /\ fmt_segs \in SeqsUpTo([kind : Kinds, s : Pieces], MaxSegs)
    /\ fmt_text = LineOf(fmt_segs)
    /\ fmt_result = <<>>
    /\ fmt_pc = "call"
    /\ SegIdle
    /\ HtmlIdle
NextFmt == Format
SpecFmt == InitFmt /\ [][NextFmt]_vars

(***************************************************************************)
(* Properties of parse_wcart_manual_to_json, under SpecSeg.                *)
(***************************************************************************)
IsPrefix(a, b) == Len(a) <= Len(b) /\ SubSeq(b, 1, Len(a)) = a

RECURSIVE Concat(_)
Concat(ss) == IF ss = <<>> THEN <<>> ELSE ss[1] \o Concat(Tail(ss))

\* The paragraph at position k, stripped, and what line 48 makes of it.
Trimmed(k) == Strip(doc[k].text)
IsHeadingAt(k) == Trimmed(k) # <<>> /\ IsHeadingStyle(doc[k].style)
IsBodyAt(k) == Trimmed(k) # <<>> /\ ~IsHeadingStyle(doc[k].style)

\* The heading texts among the first n paragraphs, each at its first place.
RECURSIVE FirstHeadings(_)
FirstHeadings(n) ==
    IF n = 0 THEN <<>>
    ELSE LET before == FirstHeadings(n - 1)
         IN  IF IsHeadingAt(n) /\ \A k \in 1..Len(before) : before[k] # Trimmed(n)
             THEN Append(before, Trimmed(n))
             ELSE before

Introduction == <<"I", "n", "t", "r", "o", "d", "u", "c", "t", "i", "o", "n">>

\* The body lines that come before the first heading, a line feed after each.
LeadingBody ==
    LET heads == {k \in 1..Len(doc) : IsHeadingAt(k)}
        stop == IF heads = {} THEN Len(doc) + 1 ELSE Min(heads)
        at == {k \in 1..(stop - 1) : IsBodyAt(k)}
    IN  Concat([k \in 1..(stop - 1) |->
                   IF k \in at THEN Trimmed(k) \o NL ELSE <<>>])

\* The pattern predicate: [A-Z0-9 \-:]+ and fewer than 100 characters.
PatternChars ==
    {"A", "B", "C", "D", "E", "F", "G", "H", "I", "J", "K", "L", "M", "N", "O",
     "P", "Q", "R", "S", "T", "U", "V", "W", "X", "Y", "Z", "0", "1", "2", "3",
     "4", "5", "6", "7", "8", "9", " ", "-", ":"}
PatternHeading(t) ==
    t # <<>> /\ Len(t) < 100 /\ \A k \in 1..Len(t) : t[k] \in PatternChars

\* C1: a record's content only grows by appending: in every step of the
\* segmenter each key of the map stays in the map and its content before the
\* step is a prefix of its content after the step; a heading that occurs
\* again does not reset what was accumulated after its earlier occurrence.
C1_ContentOnlyGrows ==
    [][\A k \in 1..Len(data) :
          /\ DictHas(data', data[k].key)
          /\ IsPrefix(data[k].value.content,
                      DictGet(data', data[k].key).content)]_vars

\* C2: the non-blank body lines before the first heading are kept, in order,
\* as the content of the record "Introduction"; a document with body lines
\* and no heading returns a map with exactly the key "Introduction".
C2_LeadingBodyKept ==
    (seg_pc = "done" /\ LeadingBody # <<>>) =>
        /\ DictHas(data, Introduction)
        /\ IsPrefix(LeadingBody, DictGet(data, Introduction).content)
        /\ (\A k \in 1..Len(doc) : ~IsHeadingAt(k)) =>
               /\ DictKeys(data) = <<Introduction>>
               /\ DictGet(data, Introduction).content = LeadingBody

\* C3: at every point of the loop the keys of the map are the heading texts
\* read so far, each once, in the order of their first occurrence; a heading
\* that occurs again does not move its key.
C3_KeysInFirstOccurrenceOrder ==
    seg_pc \in {"loop", "done"} => DictKeys(data) = FirstHeadings(seg_i - 1)

\* C3's case: a document all of whose three paragraphs are headings, the
\* third repeating the first, has been read, and the map has two keys.
C3_Witness ==
    /\ seg_pc = "done"
    /\ Len(doc) = 3
    /\ \A k \in 1..3 : IsHeadingAt(k)
    /\ Trimmed(1) = Trimmed(3)
    /\ Trimmed(1) # Trimmed(2)
    /\ DictKeys(data) = <<Trimmed(1), Trimmed(2)>>

\* C4: under the pattern predicate a non-blank trimmed line is a heading (it
\* becomes the current section and a key of the map) exactly when it is made
\* of uppercase letters, digits, spaces, hyphens and colons only and is
\* shorter than 100 characters; any other line is body and leaves the
\* current section as it was.
C4_PatternPredicateDecides ==
    [][(seg_pc = "loop" /\ seg_i <= Len(doc) /\ Trimmed(seg_i) # <<>>) =>
          IF PatternHeading(Trimmed(seg_i))
          THEN current_section' = Trimmed(seg_i) /\ DictHas(data', Trimmed(seg_i))
          ELSE current_section' = current_section]_vars

(***************************************************************************)
(* Properties of convert_to_html, under SpecHtml.                          *)
(***************************************************************************)
IsOrdered(block) == StartsWith(block, Open(OL))
IsUnordered(block) == StartsWith(block, Open(UL))

\* The number of places of s where sub occurs.
Count(s, sub) ==
    Cardinality({k \in 1..(Len(s) - Len(sub) + 1) :
                    SubSeq(s, k, k + Len(sub) - 1) = sub})

\* A list line without its marker: "- ", the bullet and a space, or digits,
\* a period and whitespace.
MarkerFree(line) ==
    IF StartsWith(line, <<"-", " ">>) \/ StartsWith(line, <<BULLET, " ">>)
    THEN Strip(SubSeq(line, 3, Len(line)))
    ELSE LET d == LeadDigits(line)
         IN  Strip(SubSeq(line, d + 2, Len(line)))

\* The non-blank lines of a paragraph, stripped.
RECURSIVE StrippedNonBlank(_)
StrippedNonBlank(ls) ==
    IF ls = <<>> THEN <<>>
    ELSE IF Strip(ls[1]) = <<>> THEN StrippedNonBlank(Tail(ls))
    ELSE <<Strip(ls[1])>> \o StrippedNonBlank(Tail(ls))

\* The length of the run of list lines that ls starts with.
LeadListLines(ls) ==
    LET bad == {k \in 1..Len(ls) : ~IsListLine(ls[k])}
    IN  IF bad = {} THEN Len(ls) ELSE Min(bad) - 1

\* The elements of a paragraph: one list block for each maximal run of list
\* lines, one element for each other line.
RECURSIVE Elements(_, _)
Elements(ls, tag) ==
    IF ls = <<>> THEN <<>>
    ELSE IF IsListLine(ls[1])
    THEN LET n == LeadListLines(ls)
         IN  <<Open(tag)
               \o Concat([k \in 1..n |->
                     Open(LI) \o convert_formatting(MarkerFree(ls[k])) \o Close(LI)])
               \o Close(tag)>>
             \o Elements(SubSeq(ls, n + 1, Len(ls)), tag)
    ELSE <<convert_formatting(ls[1])>> \o Elements(Tail(ls), tag)

RenderedParagraph(p) ==
    Join(Elements(StrippedNonBlank(Split(p, NL)), ListTag(Split(p, NL))), BR)

Rendered(t) ==
    LET ps == SelectSeq(Split(t, NLNL), LAMBDA p : Strip(p) # <<>>)
    IN  Join([k \in 1..Len(ps) |-> RenderedParagraph(ps[k])], BRBR)

\* The list lines of a text.
ListLineCount(t) ==
    LET ps == Split(t, NLNL)
    IN  Cardinality({<<k, j>> \in (1..Len(ps)) \X (1..Len(t)) :
                        /\ j <= Len(Split(ps[k], NL))
                        /\ IsListLine(Strip(Split(ps[k], NL)[j]))})

\* C5: every list block of a paragraph is <ol> if and only if the first
\* physical line of the paragraph matches digits, a period and whitespace,
\* and is <ul> otherwise.
C5_TagFromNumericMarker ==
    \A k \in 1..Len(html_lines) :
        /\ IsOrdered(html_lines[k]) => MatchNumItem(lines[1])
        /\ IsUnordered(html_lines[k]) => ~MatchNumItem(lines[1])

\* C6: in a paragraph whose first line is a numeric-marker list item (a
\* line that line 84, on the stripped line, takes for a list line by its
\* digits, period and whitespace), no list run is rendered as <ul>.
C6_NumericFirstItemAllOrdered ==
    (lines # <<>> /\ MatchNumItem(Strip(lines[1]))) =>
        \A k \in 1..Len(html_lines) : ~IsUnordered(html_lines[k])

\* C6, for a first line that is not indented: when lines[0] as it stands
\* matches digits, a period and whitespace, every list block of the
\* paragraph, also one of dash or bullet items only that comes after a line
\* that is no list line, is <ol>.
C6_UnindentedFirstLineAllOrdered ==
    (lines # <<>> /\ MatchNumItem(lines[1])) =>
        /\ \A k \in 1..Len(html_lines) : ~IsUnordered(html_lines[k])
        /\ (pc = "para" =>
               Count(JoinLines(html_lines), Open(OL))
                   = Len(SelectSeq(Elements(StrippedNonBlank(lines), OL), IsOrdered)))

\* The case of the unindented first line: the paragraph "1. a", "c", "- *b*"
\* is finished: its second run, a dash item after a plain line, is an <ol>
\* block.
C6_UnindentedWitness ==
    /\ pc = "para"
    /\ Len(lines) = 3
    /\ MatchNumItem(lines[1])
    /\ ~IsListLine(Strip(lines[2]))
    /\ StartsWith(lines[3], <<"-", " ">>)
    /\ Len(html_lines) = 3
    /\ IsOrdered(html_lines[1])
    /\ IsOrdered(html_lines[3])

\* C7: the returned str is the non-blank paragraphs joined by <br><br>, each
\* paragraph being its elements in line order joined by <br>: one list block
\* for each maximal run of list lines, with one <li> for each line of the run
\* holding the line's text without its marker, inline-formatted, and the
\* inline-formatted text of each other line; blank lines add nothing.
C7_RenderedStructure == pc = "done" => result = Rendered(text)

\* C7's case: a run of two list lines, a second paragraph of one plain line.
C7_Witness ==
    /\ pc = "done"
    /\ text = <<"1", ".", " ", "a", "\n", "-", " ", "*", "b", "*", "\n", "\n", "c">>
    /\ result = Open(OL) \o Open(LI) \o <<"a">> \o Close(LI)
                \o Open(LI) \o Open(EM) \o <<"b">> \o Close(EM) \o Close(LI)
                \o Close(OL) \o BRBR \o <<"c">>

\* A text with no list markup of its own.
NoListMarkup(t) ==
    /\ Count(t, Open(LI)) = 0
    /\ Count(t, Open(OL) \o Close(OL)) = 0
    /\ Count(t, Open(UL) \o Close(UL)) = 0

EmptyBlocks(s) ==
    Count(s, Open(OL) \o Close(OL)) + Count(s, Open(UL) \o Close(UL))

\* C10, as stated: after each line of a paragraph in_list holds exactly when
\* current_list is not empty; the returned str holds no empty list block and
\* the number of its <li> elements is the number of list lines of the text.
C10_LiCountIsListLineCount ==
    /\ pc = "line" => (in_list <=> current_list # <<>>)
    /\ pc = "done" =>
          /\ EmptyBlocks(result) = 0
          /\ Count(result, Open(LI)) = ListLineCount(text)

\* C10, amended: after each line of a paragraph in_list holds exactly when
\* current_list is not empty; no list block that is appended is empty; and
\* for a text with no "<li>", "<ol></ol>" or "<ul></ul>" of its own the
\* returned str holds no empty list block and the number of its <li>
\* elements is the number of list lines of the text.
C10_InListIffCurrentList ==
    /\ pc = "line" => (in_list <=> current_list # <<>>)
    /\ \A k \in 1..Len(html_lines) :
          (IsOrdered(html_lines[k]) \/ IsUnordered(html_lines[k])) =>
              /\ Count(html_lines[k], Open(LI)) >= 1
              /\ EmptyBlocks(html_lines[k]) = 0
    /\ (pc = "done" /\ NoListMarkup(text)) =>
          /\ EmptyBlocks(result) = 0
          /\ Count(result, Open(LI)) = ListLineCount(text)

\* C10's case: a text of three list lines in two runs, with no list markup
\* of its own, has been rendered.
C10_Witness ==
    /\ pc = "done"
    /\ NoListMarkup(text)
    /\ ListLineCount(text) = 3
    /\ Count(result, Open(LI)) = 3
    /\ Count(result, Close(OL)) + Count(result, Close(UL)) = 2

(***************************************************************************)
(* Property of convert_formatting, under SpecFmt.                          *)
(***************************************************************************)
Wrapped(seg) ==
    CASE seg.kind = "bold" -> Open(STRONG) \o seg.s \o Close(STRONG)
      [] seg.kind = "italic" -> Open(EM) \o seg.s \o Close(EM)
      [] OTHER -> seg.s

\* C8: on a line made of asterisk-free text and spans **X** and *X*, X not
\* empty and asterisk-free, each **X** becomes <strong>X</strong>, each *X*
\* becomes <em>X</em>, and no asterisk is left.
C8_SpansReplaced ==
    fmt_pc = "done" =>
        /\ fmt_result = Concat([k \in 1..Len(fmt_segs) |-> Wrapped(fmt_segs[k])])
        /\ \A k \in 1..Len(fmt_result) : fmt_result[k] # "*"

(***************************************************************************)
(* Property of convert_to_html applied twice, under SpecTwice.             *)
(***************************************************************************)
\* The text "*a", "b*": an asterisk on each of two lines.
SplitMarkers == <<"*", "a", "\n", "b", "*">>

\* C9: convert_to_html is not idempotent: for the text "*a\nb*", applying
\* it to what it returned gives another str than what it returned.
C9_NotIdempotent ==
    (pc = "done" /\ pass = 2 /\ orig = SplitMarkers) => result # first

\* C9's case: the first application returned "*a<br>b*", the second
\* "<em>a<br>b</em>".
C9_Witness ==
    /\ pc = "done"
    /\ pass = 2
    /\ orig = SplitMarkers
    /\ first = <<"*", "a">> \o BR \o <<"b", "*">>
    /\ result = Open(EM) \o <<"a">> \o BR \o <<"b">> \o Close(EM)

====
